---- MODULE Spec2Model ----
(***************************************************************************)
(* Model of models/mri_model.py: class MRIModel, the lifecycle hooks of an *)
(* MRI reconstruction model (data-loader construction, validation-epoch    *)
(* aggregation and visualisation, test-epoch export).                      *)
(*                                                                         *)
(* An image is a sequence of pixel values (a flattened numpy array); a     *)
(* volume is a sequence of images (np.stack); a python dict is a sequence  *)
(* of <<key, value>> pairs in insertion order; a python exception is the   *)
(* string naming its class.                                                *)
(***************************************************************************)
EXTENDS Integers, Sequences, FiniteSets, TLC

VARIABLES hparams, overrides, method, args, constructed,
          logs, logs0, pc, idx, outputs, targets, losses, metrics,
          vis_outputs, vis_targets, picked, images, saved, result

vars == <<hparams, overrides, method, args, constructed,
          logs, logs0, pc, idx, outputs, targets, losses, metrics,
          vis_outputs, vis_targets, picked, images, saved, result>>

(* ------------------------------ bounds --------------------------------- *)
MaxEntries == 3        \* slices logged in one test epoch, over all batches
MaxValEntries == 2     \* slices logged in one validation epoch (rich logs)
MaxVisLogs == 36       \* validation logs in one epoch (long logs)
MaxSlice == 1          \* slice indices are 0..MaxSlice
MaxShape == 2          \* an image has 1..MaxShape pixels
RateDen == 2           \* sample rates are k/RateDen, k in 0..RateDen

Fnames == {"a", "b"}
Slices == 0..MaxSlice
Pixels == {0, 1}
Losses == {1, 2}
None == "None"

\* how a call ended: still running, returned a value, raised an exception
NoResult == [kind |-> "none", value |-> None]
Return(v) == [kind |-> "return", value |-> v]
Raise(e) == [kind |-> "raise", value |-> e]

\* an optional argument: <<>> is python's None, <<v>> the value v
\* passed_rate remembers the sample_rate argument as the caller passed it
NoArgs == [data_transform |-> None, data_partition |-> None, sample_rate |-> <<>>,
           passed_rate |-> <<>>]

Min2(a, b) == IF a < b THEN a ELSE b

(* ------------------------- python building blocks ---------------------- *)
\* d[k] of a defaultdict(list): the list under k, [] when k is absent
RECURSIVE DictGet(_, _)
DictGet(d, k) ==
  IF d = <<>> THEN <<>>
  ELSE IF Head(d)[1] = k THEN Head(d)[2] ELSE DictGet(Tail(d), k)

DictKeys(d) == [j \in 1..Len(d) |-> d[j][1]]

DictHas(d, k) == \E j \in 1..Len(d) : d[j][1] = k

\* d[k].append(x) on a defaultdict(list): a new key goes last
DictAppend(d, k, x) ==
  IF DictHas(d, k)
  THEN [j \in 1..Len(d) |->
          IF d[j][1] = k THEN <<k, Append(d[j][2], x)>> ELSE d[j]]
  ELSE Append(d, <<k, <<x>>>>)

\* bool(a == b) and bool(a < b) of two numpy arrays of equal shape exist
\* only for arrays of one element
ArrayTruthRaises(a) == Len(a) > 1

\* (s1, img1) < (s2, img2) of python tuples: the first differing position
\* decides, found with ==; equal slice indices make the arrays compare
TupleLtRaises(x, y) == x[1] = y[1] /\ ArrayTruthRaises(x[2])

TupleLt(x, y) ==
  IF x[1] # y[1] THEN x[1] < y[1]
  ELSE IF x[2][1] # y[2][1] THEN x[2][1] < y[2][1]
  ELSE FALSE

\* sorted(list) raises when some comparison raises; every pair of entries
\* with equal slice index gets compared (directly or through a third entry
\* of the same slice index)
SortedRaises(s) ==
  \E j, k \in 1..Len(s) : j < k /\ TupleLtRaises(s[j], s[k])

\* stable insertion of x into the sorted list s (after its equals)
RECURSIVE InsertSorted(_, _)
InsertSorted(s, x) ==
  IF s = <<>> THEN <<x>>
  ELSE IF TupleLt(x, Head(s)) THEN <<x>> \o s
  ELSE <<Head(s)>> \o InsertSorted(Tail(s), x)

RECURSIVE SortedFrom(_, _)
SortedFrom(acc, s) ==
  IF s = <<>> THEN acc ELSE SortedFrom(InsertSorted(acc, Head(s)), Tail(s))

\* sorted(list) of (slice, image) tuples, when it does not raise
Sorted(s) == SortedFrom(<<>>, s)

\* np.stack([img for _, img in sorted(list)])
Stack(s) == [j \in 1..Len(s) |-> Sorted(s)[j][2]]

\* for i, (fname, slice) in enumerate(zip(log.fname, log.slice)):
\*     d[fname].append((slice, log[field][i]))
\* variant: every entry of a batch is filed under the batch's first fname
RECURSIVE GroupFromFirstName(_, _, _, _)
GroupFromFirstName(d, log, field, i) ==
  IF i > Min2(Len(log.fname), Len(log.slice)) THEN d
  ELSE GroupFromFirstName(
         DictAppend(d, log.fname[1], <<log.slice[i], log[field][i]>>),
         log, field, i + 1)

RECURSIVE GroupFrom(_, _, _, _)
GroupFrom(d, log, field, i) ==
  IF i > Min2(Len(log.fname), Len(log.slice)) THEN d
  ELSE GroupFrom(DictAppend(d, log.fname[i], <<log.slice[i], log[field][i]>>),
                 log, field, i + 1)

GroupLog(d, log, field) == GroupFrom(d, log, field, 1)

(* ------------------------------ inputs --------------------------------- *)
HParams == [sample_rate : 0..RateDen, data_path : {"data"},
            challenge : {"singlecoil", "multicoil"}, batch_size : {16},
            exp_dir : {"exp_dir"}, exp : {"exp"}]

\* images of p pixels in the test logs
TestImages(p) == {[k \in 1..p |-> v] : v \in Pixels}

TestEntries(p) == [fname : Fnames, slice : Slices, output : TestImages(p)]

\* the batch (one log) made of the entries es[from..to]: parallel lists
BatchOf(es, from, to, fields) ==
  [f \in fields |-> [i \in 1..(to - from + 1) |-> es[from + i - 1][f]]]

\* the entries es collated into batches: a batch ends after every position
\* in cuts and after the last entry
RECURSIVE BatchedFrom(_, _, _, _)
BatchedFrom(es, cuts, from, fields) ==
  IF from > Len(es) THEN <<>>
  ELSE LET to == CHOOSE k \in from..Len(es) :
                   /\ k \in cuts \cup {Len(es)}
                   /\ \A l \in from..(k - 1) : l \notin cuts
       IN <<BatchOf(es, from, to, fields)>> \o BatchedFrom(es, cuts, to + 1, fields)

\* the test logs of an epoch of at most MaxEntries slices
IsTestInput(ls) ==
  \E p \in 1..MaxShape, n \in 0..MaxEntries :
    \E es \in [1..n -> TestEntries(p)], cuts \in SUBSET (1..(n - 1)) :
      ls = BatchedFrom(es, cuts, 1, {"fname", "slice", "output"})

Quiet ==
  /\ overrides = {} /\ method = None /\ args = NoArgs /\ constructed = <<>>
  /\ idx = 0 /\ outputs = <<>> /\ targets = <<>> /\ losses = <<>>
  /\ metrics = <<>> /\ vis_outputs = <<>> /\ vis_targets = <<>>
  /\ picked = <<>> /\ images = <<>> /\ saved = <<>> /\ result = NoResult

(* ------------------------------ test_end ------------------------------- *)
InitTest ==
  /\ hparams \in {h \in HParams : h.sample_rate = RateDen /\ h.challenge = "singlecoil"}
  /\ IsTestInput(logs)
  /\ logs0 = logs
  /\ pc = "idle"
  /\ Quiet

\* test_end(test_logs): outputs = defaultdict(list)
CallTestEnd ==
  /\ pc = "idle"
  /\ method' = "test_end"
  /\ outputs' = <<>>
  /\ idx' = 1
  /\ pc' = "te_group"
  /\ UNCHANGED <<hparams, overrides, args, constructed, logs, logs0,
                 targets, losses, metrics, vis_outputs, vis_targets, picked,
                 images, saved, result>>

\* one iteration of `for log in test_logs`
TestEndGroup ==
  /\ pc = "te_group"
  /\ idx <= Len(logs)
  /\ outputs' = GroupLog(outputs, logs[idx], "output")
  /\ idx' = idx + 1
  /\ UNCHANGED <<hparams, overrides, method, args, constructed, logs,
                 logs0, pc, targets, losses, metrics, vis_outputs,
                 vis_targets, picked, images, saved, result>>

\* the first loop is exhausted
TestEndGrouped ==
  /\ pc = "te_group"
  /\ idx > Len(logs)
  /\ idx' = 1
  /\ pc' = "te_stack"
  /\ UNCHANGED <<hparams, overrides, method, args, constructed, logs,
                 logs0, outputs, targets, losses, metrics, vis_outputs,
                 vis_targets, picked, images, saved, result>>

\* one iteration of `for fname in outputs`: the list becomes a volume
TestEndStack ==
  /\ pc = "te_stack"
  /\ idx <= Len(outputs)
  /\ ~SortedRaises(outputs[idx][2])
  /\ outputs' = [outputs EXCEPT ![idx] = <<outputs[idx][1], Stack(outputs[idx][2])>>]
  /\ idx' = idx + 1
  /\ UNCHANGED <<hparams, overrides, method, args, constructed, logs,
                 logs0, pc, targets, losses, metrics, vis_outputs,
                 vis_targets, picked, images, saved, result>>

\* sorted() raises inside the second loop; test_end does not catch it
TestEndStackRaise ==
  /\ pc = "te_stack"
  /\ idx <= Len(outputs)
  /\ SortedRaises(outputs[idx][2])
  /\ result' = Raise("ValueError")
  /\ pc' = "raised"
  /\ UNCHANGED <<hparams, overrides, method, args, constructed, logs,
                 logs0, idx, outputs, targets, losses, metrics, vis_outputs,
                 vis_targets, picked, images, saved>>

\* save_reconstructions(outputs, exp_dir / exp / 'reconstructions')
TestEndSave ==
  /\ pc = "te_stack"
  /\ idx > Len(outputs)
  /\ saved' = Append(saved, [reconstructions |-> outputs,
                             out_dir |-> <<hparams.exp_dir, hparams.exp,
                                           "reconstructions">>])
  /\ pc' = "te_return"
  /\ UNCHANGED <<hparams, overrides, method, args, constructed, logs,
                 logs0, idx, outputs, targets, losses, metrics, vis_outputs,
                 vis_targets, picked, images, result>>

\* return dict()
TestEndReturn ==
  /\ pc = "te_return"
  /\ result' = Return(<<>>)
  /\ pc' = "done"
  /\ UNCHANGED <<hparams, overrides, method, args, constructed, logs,
                 logs0, idx, outputs, targets, losses, metrics, vis_outputs,
                 vis_targets, picked, images, saved>>

NextTest ==
  \/ CallTestEnd
  \/ TestEndGroup
  \/ TestEndGrouped
  \/ TestEndStack
  \/ TestEndStackRaise
  \/ TestEndSave
  \/ TestEndReturn

SpecTest == InitTest /\ [][NextTest]_vars

(* ------------------------ validation inputs ---------------------------- *)
\* reconstructions of p pixels in the validation logs: the last pixel is 1,
\* so the minimum of an image is its first pixel
ValImages(p) == {[k \in 1..p |-> IF k = 1 THEN v ELSE 1] : v \in Pixels}

\* the target images of p pixels in the validation logs
ValTargets(p) == {[k \in 1..p |-> IF k = 1 THEN 0 ELSE 1]}

ValEntries ==
  [fname : Fnames, slice : Slices, output : ValImages(MaxShape),
   target : ValTargets(MaxShape)]

\* the batches of es with the batch losses ls attached
WithLosses(bs, ls) ==
  [j \in 1..Len(bs) |->
     [fname |-> bs[j].fname, slice |-> bs[j].slice, output |-> bs[j].output,
      target |-> bs[j].target, val_loss |-> ls[j]]]

\* the validation logs of an epoch of at most MaxValEntries slices
IsRichInput(ls) ==
  \E n \in 0..MaxValEntries :
    \E es \in [1..n -> ValEntries], cuts \in SUBSET (1..(n - 1)) :
      LET bs == BatchedFrom(es, cuts, 1, {"fname", "slice", "output", "target"})
      IN \E vl \in [1..Len(bs) -> Losses] : ls = WithLosses(bs, vl)

\* n batches of one slice each, all of file "a", slice j-1 in batch j
LongLogs(n) ==
  [j \in 1..n |->
     [fname |-> <<"a">>, slice |-> <<j - 1>>,
      output |-> <<[k \in 1..MaxShape |-> IF k = 1 THEN j % 2 ELSE 1]>>,
      target |-> <<[k \in 1..MaxShape |-> 1]>>,
      val_loss |-> 1 + (j % 2)]]

IsLongInput(ls) == \E n \in 1..MaxVisLogs : ls = LongLogs(n)

InitVal ==
  /\ hparams \in {h \in HParams : h.sample_rate = RateDen /\ h.challenge = "singlecoil"}
  /\ IsRichInput(logs) \/ IsLongInput(logs)
  /\ logs0 = logs
  /\ pc = "idle"
  /\ Quiet

(* ------------------------------ _visualize ----------------------------- *)
RECURSIVE MinOf(_)
MinOf(img) ==
  IF Len(img) = 1 THEN img[1]
  ELSE IF img[1] <= MinOf(Tail(img)) THEN img[1] ELSE MinOf(Tail(img))

RECURSIVE MaxOf(_)
MaxOf(img) ==
  IF Len(img) = 1 THEN img[1]
  ELSE IF img[1] >= MaxOf(Tail(img)) THEN img[1] ELSE MaxOf(Tail(img))

\* _normalize, `image -= image.min()`: image[np.newaxis] is a view of the
\* logged array, so the subtraction writes into the log
Shifted(img) == [k \in 1..Len(img) |-> img[k] - MinOf(img)]

\* _normalize, `return image / image.max()`: a new array of quotients
\* <<numerator, denominator>> (0/0 is nan) with the added leading axis
_normalize(img) ==
  <<[k \in 1..Len(img) |-> <<Shifted(img)[k], MaxOf(Shifted(img))>>]>>

Abs(x) == IF x < 0 THEN -x ELSE x

\* np.abs(targets - outputs) on stacks of normalised images
AbsDiff(ts, os) ==
  [j \in 1..Len(ts) |->
    [a \in 1..Len(ts[j]) |->
      [k \in 1..Len(ts[j][a]) |->
        <<Abs(ts[j][a][k][1] * os[j][a][k][2] - os[j][a][k][1] * ts[j][a][k][2]),
          ts[j][a][k][2] * os[j][a][k][2]>>]]]

\* variant: step = (num_logs + 16) // 16
VisStepOffByOne(num_logs) == (num_logs + 16) \div 16

\* step = (num_logs + 15) // 16
VisStep(num_logs) == (num_logs + 15) \div 16

\* validation_end(val_logs): self._visualize(val_logs) comes first
CallValidationEnd ==
  /\ pc = "idle"
  /\ method' = "validation_end"
  /\ pc' = "vis_start"
  /\ UNCHANGED <<hparams, overrides, args, constructed, logs, logs0, idx,
                 outputs, targets, losses, metrics, vis_outputs, vis_targets,
                 picked, images, saved, result>>

\* _visualize up to the loop header; range(0, 0, 0) raises ValueError
VisStart ==
  /\ pc = "vis_start"
  /\ IF VisStep(Len(logs)) = 0
     THEN /\ result' = Raise("ValueError")
          /\ pc' = "raised"
          /\ UNCHANGED <<idx, vis_outputs, vis_targets>>
     ELSE /\ vis_outputs' = <<>>
          /\ vis_targets' = <<>>
          /\ idx' = 0
          /\ pc' = "vis_loop"
          /\ UNCHANGED result
  /\ UNCHANGED <<hparams, overrides, method, args, constructed, logs,
                 logs0, outputs, targets, losses, metrics, picked, images,
                 saved>>

\* one iteration of `for i in range(0, num_logs, step)`; idx is python's i
VisPick ==
  /\ pc = "vis_loop"
  /\ idx < Len(logs)
  /\ vis_outputs' = Append(vis_outputs, _normalize(logs[idx + 1].output[1]))
  /\ vis_targets' = Append(vis_targets, _normalize(logs[idx + 1].target[1]))
  /\ logs' = [logs EXCEPT ![idx + 1].output[1] = Shifted(@),
                          ![idx + 1].target[1] = Shifted(@)]
  /\ picked' = Append(picked, idx)
  /\ idx' = idx + VisStep(Len(logs))
  /\ UNCHANGED <<hparams, overrides, method, args, constructed, logs0,
                 pc, outputs, targets, losses, metrics, images, saved, result>>

\* the loop is exhausted: np.stack twice, save_image(targets, 'Target')
VisSaveTarget ==
  /\ pc = "vis_loop"
  /\ idx >= Len(logs)
  /\ images' = Append(images, <<"Target", vis_targets>>)
  /\ pc' = "vis_recon"
  /\ UNCHANGED <<hparams, overrides, method, args, constructed, logs,
                 logs0, idx, outputs, targets, losses, metrics, vis_outputs,
                 vis_targets, picked, saved, result>>

\* save_image(outputs, 'Reconstruction')
VisSaveReconstruction ==
  /\ pc = "vis_recon"
  /\ images' = Append(images, <<"Reconstruction", vis_outputs>>)
  /\ pc' = "vis_error"
  /\ UNCHANGED <<hparams, overrides, method, args, constructed, logs,
                 logs0, idx, outputs, targets, losses, metrics, vis_outputs,
                 vis_targets, picked, saved, result>>

\* save_image(np.abs(targets - outputs), 'Error'); validation_end goes on
\* to `return self._evaluate(val_logs)`
VisSaveError ==
  /\ pc = "vis_error"
  /\ images' = Append(images, <<"Error", AbsDiff(vis_targets, vis_outputs)>>)
  /\ pc' = "ev_start"
  /\ UNCHANGED <<hparams, overrides, method, args, constructed, logs,
                 logs0, idx, outputs, targets, losses, metrics, vis_outputs,
                 vis_targets, picked, saved, result>>

(* ------------------------------ _evaluate ------------------------------ *)
\* evaluate.nmse / ssim / psnr live outside this file: an application is
\* kept as the uninterpreted term <<name, gt, pred>>
nmse(gt, pred) == <<"nmse", gt, pred>>
ssim(gt, pred) == <<"ssim", gt, pred>>
psnr(gt, pred) == <<"psnr", gt, pred>>

\* np.mean(values), kept as the term <<"mean", values>>
Mean(values) == <<"mean", values>>

\* a direct call of _evaluate(val_logs)
CallEvaluate ==
  /\ pc = "idle"
  /\ method' = "_evaluate"
  /\ pc' = "ev_start"
  /\ UNCHANGED <<hparams, overrides, args, constructed, logs, logs0, idx,
                 outputs, targets, losses, metrics, vis_outputs, vis_targets,
                 picked, images, saved, result>>

\* losses = []; outputs = defaultdict(list); targets = defaultdict(list)
EvalStart ==
  /\ pc = "ev_start"
  /\ losses' = <<>>
  /\ outputs' = <<>>
  /\ targets' = <<>>
  /\ idx' = 1
  /\ pc' = "ev_group"
  /\ UNCHANGED <<hparams, overrides, method, args, constructed, logs,
                 logs0, metrics, vis_outputs, vis_targets, picked, images,
                 saved, result>>

\* variant: the batch loss is appended once per slice of the batch
EvalGroupLossPerSlice ==
  /\ pc = "ev_group"
  /\ idx <= Len(logs)
  /\ losses' = losses \o [i \in 1..Len(logs[idx].fname) |-> logs[idx].val_loss]
  /\ outputs' = GroupLog(outputs, logs[idx], "output")
  /\ targets' = GroupLog(targets, logs[idx], "target")
  /\ idx' = idx + 1
  /\ UNCHANGED <<hparams, overrides, method, args, constructed, logs,
                 logs0, pc, metrics, vis_outputs, vis_targets, picked, images,
                 saved, result>>

\* one iteration of `for log in val_logs`
EvalGroup ==
  /\ pc = "ev_group"
  /\ idx <= Len(logs)
  /\ losses' = Append(losses, logs[idx].val_loss)
  /\ outputs' = GroupLog(outputs, logs[idx], "output")
  /\ targets' = GroupLog(targets, logs[idx], "target")
  /\ idx' = idx + 1
  /\ UNCHANGED <<hparams, overrides, method, args, constructed, logs,
                 logs0, pc, metrics, vis_outputs, vis_targets, picked, images,
                 saved, result>>

\* metrics = dict(val_loss=losses, nmse=[], ssim=[], psnr=[])
EvalGrouped ==
  /\ pc = "ev_group"
  /\ idx > Len(logs)
  /\ metrics' = <<<<"val_loss", losses>>, <<"nmse", <<>>>>, <<"ssim", <<>>>>,
                  <<"psnr", <<>>>>>>
  /\ idx' = 1
  /\ pc' = "ev_metric"
  /\ UNCHANGED <<hparams, overrides, method, args, constructed, logs,
                 logs0, outputs, targets, losses, vis_outputs, vis_targets,
                 picked, images, saved, result>>

\* one iteration of `for fname in outputs`
EvalMetric ==
  /\ pc = "ev_metric"
  /\ idx <= Len(outputs)
  /\ ~SortedRaises(outputs[idx][2])
  /\ ~SortedRaises(DictGet(targets, outputs[idx][1]))
  /\ LET output == Stack(outputs[idx][2])
         target == Stack(DictGet(targets, outputs[idx][1]))
     IN metrics' = DictAppend(DictAppend(DictAppend(metrics,
                     "nmse", nmse(target, output)),
                     "ssim", ssim(target, output)),
                     "psnr", psnr(target, output))
  /\ idx' = idx + 1
  /\ UNCHANGED <<hparams, overrides, method, args, constructed, logs,
                 logs0, pc, outputs, targets, losses, vis_outputs,
                 vis_targets, picked, images, saved, result>>

\* sorted() raises inside the loop; neither _evaluate nor validation_end
\* catches it
EvalMetricRaise ==
  /\ pc = "ev_metric"
  /\ idx <= Len(outputs)
  /\ \/ SortedRaises(outputs[idx][2])
     \/ SortedRaises(DictGet(targets, outputs[idx][1]))
  /\ result' = Raise("ValueError")
  /\ pc' = "raised"
  /\ UNCHANGED <<hparams, overrides, method, args, constructed, logs,
                 logs0, idx, outputs, targets, losses, metrics, vis_outputs,
                 vis_targets, picked, images, saved>>

\* metrics = {metric: np.mean(values) ...}; return dict(log=metrics, **metrics)
EvalReturn ==
  /\ pc = "ev_metric"
  /\ idx > Len(outputs)
  /\ LET means == [j \in 1..Len(metrics) |-> <<metrics[j][1], Mean(metrics[j][2])>>]
     IN /\ metrics' = means
        /\ result' = Return(<<<<"log", means>>>> \o means)
  /\ pc' = "done"
  /\ UNCHANGED <<hparams, overrides, method, args, constructed, logs,
                 logs0, idx, outputs, targets, losses, vis_outputs,
                 vis_targets, picked, images, saved>>

NextVal ==
  \/ CallValidationEnd
  \/ VisStart
  \/ VisPick
  \/ VisSaveTarget
  \/ VisSaveReconstruction
  \/ VisSaveError
  \/ CallEvaluate
  \/ EvalStart
  \/ EvalGroup
  \/ EvalGrouped
  \/ EvalMetric
  \/ EvalMetricRaise
  \/ EvalReturn

SpecVal == InitVal /\ [][NextVal]_vars

(* ---------------------------- data loaders ----------------------------- *)
Partitions == {"train", "val", "test"}

\* sample rates are counted in units of 1/RateDen: 1. is RateDen
One == RateDen

InitLoader ==
  /\ hparams \in HParams
  /\ overrides \in SUBSET Partitions
  /\ logs = <<>> /\ logs0 = <<>>
  /\ pc = "idle"
  /\ method = None /\ args = NoArgs /\ constructed = <<>>
  /\ idx = 0 /\ outputs = <<>> /\ targets = <<>> /\ losses = <<>>
  /\ metrics = <<>> /\ vis_outputs = <<>> /\ vis_targets = <<>>
  /\ picked = <<>> /\ images = <<>> /\ saved = <<>> /\ result = NoResult

LoaderFrame ==
  UNCHANGED <<hparams, overrides, logs, logs0, idx, outputs, targets, losses,
              metrics, vis_outputs, vis_targets, picked, images, saved>>

\* a call of train_dataloader / val_dataloader / test_dataloader: the
\* argument self.<partition>_data_transform() is evaluated first
CallDataloader(partition) ==
  /\ pc = "idle"
  /\ method' = partition
  /\ pc' = "dl_transform"
  /\ UNCHANGED <<args, constructed, result>>
  /\ LoaderFrame

train_dataloader == CallDataloader("train")

val_dataloader == CallDataloader("val")

test_dataloader == CallDataloader("test")

\* variant: the hook of the base class returns None instead of raising
DataTransformPass ==
  /\ pc = "dl_transform"
  /\ method \notin overrides
  /\ args' = [data_transform |-> None, data_partition |-> method,
              sample_rate |-> <<>>, passed_rate |-> <<>>]
  /\ pc' = "cdl_rate"
  /\ UNCHANGED <<method, constructed, result>>
  /\ UNCHANGED <<hparams, overrides, logs, logs0, idx, outputs, targets,
                 losses, metrics, vis_outputs, vis_targets, picked, images,
                 saved>>

\* <partition>_data_transform of the base class: raise NotImplementedError
DataTransformRaise ==
  /\ pc = "dl_transform"
  /\ method \notin overrides
  /\ result' = Raise("NotImplementedError")
  /\ pc' = "raised"
  /\ UNCHANGED <<method, args, constructed>>
  /\ LoaderFrame

\* sample_rate argument of the call in each *_dataloader
LoaderRateArg(partition) == IF partition = "test" THEN <<One>> ELSE <<>>

\* <partition>_data_transform overridden by a subclass returns a transform,
\* and _create_data_loader is entered with the arguments of the call
DataTransformReturn ==
  /\ pc = "dl_transform"
  /\ method \in overrides
  /\ args' = [data_transform |-> <<"transform", method>>,
              data_partition |-> method,
              sample_rate |-> LoaderRateArg(method),
              passed_rate |-> LoaderRateArg(method)]
  /\ pc' = "cdl_rate"
  /\ UNCHANGED <<method, constructed, result>>
  /\ LoaderFrame

\* a direct call of _create_data_loader(data_transform, data_partition,
\* sample_rate) by a subclass
CallCreateDataLoader ==
  /\ pc = "idle"
  /\ \E part \in Partitions, rate \in {<<>>} \cup {<<r>> : r \in 0..RateDen} :
       args' = [data_transform |-> <<"transform", "caller">>,
                data_partition |-> part, sample_rate |-> rate,
                passed_rate |-> rate]
  /\ method' = "_create_data_loader"
  /\ pc' = "cdl_rate"
  /\ UNCHANGED <<constructed, result>>
  /\ LoaderFrame

\* python truth value of an optional number: None and 0 are false
Falsy(opt) == opt = <<>> \/ opt[1] = 0

\* sample_rate or self.hparams.sample_rate
RateOr(opt, default) == IF Falsy(opt) THEN <<default>> ELSE opt

\* sample_rate = sample_rate or self.hparams.sample_rate
CreateResolveRate ==
  /\ pc = "cdl_rate"
  /\ args' = [args EXCEPT !.sample_rate = RateOr(@, hparams.sample_rate)]
  /\ pc' = "cdl_dataset"
  /\ UNCHANGED <<method, constructed, result>>
  /\ LoaderFrame

\* dataset = SliceData(root=..., transform=..., sample_rate=..., challenge=...)
CreateSliceData ==
  /\ pc = "cdl_dataset"
  /\ constructed' = Append(constructed,
       [cls |-> "SliceData",
        root |-> <<hparams.data_path, <<hparams.challenge, "_", args.data_partition>>>>,
        transform |-> args.data_transform,
        sample_rate |-> args.sample_rate[1],
        challenge |-> hparams.challenge])
  /\ pc' = "cdl_sampler"
  /\ UNCHANGED <<method, args, result>>
  /\ LoaderFrame

\* sampler = DistributedSampler(dataset)
CreateSampler ==
  /\ pc = "cdl_sampler"
  /\ constructed' = Append(constructed,
       [cls |-> "DistributedSampler", dataset |-> constructed[1]])
  /\ pc' = "cdl_loader"
  /\ UNCHANGED <<method, args, result>>
  /\ LoaderFrame

\* return DataLoader(dataset=..., batch_size=..., num_workers=8,
\*                   pin_memory=True, sampler=sampler)
CreateDataLoader ==
  /\ pc = "cdl_loader"
  /\ LET loader == [cls |-> "DataLoader", dataset |-> constructed[1],
                    batch_size |-> hparams.batch_size, num_workers |-> 8,
                    pin_memory |-> TRUE, sampler |-> constructed[2]]
     IN /\ constructed' = Append(constructed, loader)
        /\ result' = Return(loader)
  /\ pc' = "done"
  /\ UNCHANGED <<method, args>>
  /\ LoaderFrame

NextLoader ==
  \/ train_dataloader
  \/ val_dataloader
  \/ test_dataloader
  \/ DataTransformRaise
  \/ DataTransformReturn
  \/ CallCreateDataLoader
  \/ CreateResolveRate
  \/ CreateSliceData
  \/ CreateSampler
  \/ CreateDataLoader

SpecLoader == InitLoader /\ [][NextLoader]_vars

(* ============================== properties ============================= *)
\* the (fname, slice, output, target) entries of a list of logs, in order
RECURSIVE Flatten(_)
Flatten(ls) ==
  IF ls = <<>> THEN <<>>
  ELSE [i \in 1..Len(Head(ls).fname) |->
          [fname |-> Head(ls).fname[i], slice |-> Head(ls).slice[i],
           output |-> Head(ls).output[i],
           target |-> IF "target" \in DOMAIN Head(ls)
                      THEN Head(ls).target[i] ELSE <<>>]]
       \o Flatten(Tail(ls))

\* the distinct values of a sequence, in order of first occurrence
RECURSIVE Distinct(_)
Distinct(s) ==
  IF s = <<>> THEN <<>>
  ELSE LET front == Distinct(SubSeq(s, 1, Len(s) - 1))
       IN IF \E j \in 1..Len(front) : front[j] = s[Len(s)]
          THEN front ELSE Append(front, s[Len(s)])

FnamesOf(ls) == Distinct([i \in 1..Len(Flatten(ls)) |-> Flatten(ls)[i].fname])

\* the entries of es that belong to file f, in order
RECURSIVE OfFile(_, _)
OfFile(es, f) ==
  IF es = <<>> THEN <<>>
  ELSE IF Head(es).fname = f THEN <<Head(es)>> \o OfFile(Tail(es), f)
  ELSE OfFile(Tail(es), f)

\* the entries of es ordered by slice index alone, ties in logged order
RECURSIVE BySlice(_)
BySlice(es) ==
  IF es = <<>> THEN <<>>
  ELSE LET low == CHOOSE i \in 1..Len(es) :
                    /\ \A j \in 1..Len(es) : es[i].slice <= es[j].slice
                    /\ \A j \in 1..(i - 1) : es[j].slice # es[i].slice
       IN <<es[low]>> \o
          BySlice([j \in 1..(Len(es) - 1) |-> IF j < low THEN es[j] ELSE es[j + 1]])

\* the volume of file f in the logs ls: its slices in slice-index order
VolumeOf(ls, f, field) ==
  LET es == BySlice(OfFile(Flatten(ls), f))
  IN [j \in 1..Len(es) |-> es[j][field]]

Occurrences(s, x) == Cardinality({j \in 1..Len(s) : s[j] = x})

\* C1: the dictionary handed to save_reconstructions has exactly one key per
\* distinct fname of the test logs, and the volume under a key holds exactly
\* the images logged with that fname, each as often as it was logged,
\* however the entries were split across batches.
C1_GroupingByFilename ==
  \A c \in 1..Len(saved) :
    LET d == saved[c].reconstructions
        es == Flatten(logs0)
    IN /\ {d[j][1] : j \in 1..Len(d)} = {es[i].fname : i \in 1..Len(es)}
       /\ \A j, k \in 1..Len(d) : j # k => d[j][1] # d[k][1]
       /\ \A j \in 1..Len(d) :
            LET mine == OfFile(es, d[j][1])
                imgs == [i \in 1..Len(mine) |-> mine[i].output]
            IN /\ Len(d[j][2]) = Len(imgs)
               /\ \A i \in 1..Len(imgs) :
                    Occurrences(d[j][2], imgs[i]) = Occurrences(imgs, imgs[i])

\* a save of two files, one of them logged in two batches, one batch
\* holding slices of both files
C1_Witness ==
  /\ Len(saved) = 1
  /\ Len(saved[1].reconstructions) = 2
  /\ Len(logs0) = 2
  /\ logs0[1].fname = <<"a", "b">>
  /\ logs0[2].fname = <<"a">>
  /\ logs0[1].output[1] # logs0[1].output[2]

\* C2: for every sequence of logs, repeated (fname, slice) pairs included,
\* each file's volume is in slice-index order and the order is decided by
\* the slice index alone: sorting never looks at the image data (so it
\* cannot fail on it) and ties keep their logged order.
C2_SortedBySliceAlone ==
  /\ result.kind # "raise"
  /\ \A c \in 1..Len(saved) :
       \A j \in 1..Len(saved[c].reconstructions) :
         saved[c].reconstructions[j][2]
           = VolumeOf(logs0, saved[c].reconstructions[j][1], "output")

\* C3: every call of test_end calls save_reconstructions exactly once, after
\* all logs are grouped and all volumes stacked, with the directory
\* exp_dir / exp / 'reconstructions', and then returns an empty dictionary.
C3_SaveOnceThenReturn ==
  /\ Len(saved) <= 1
  /\ saved # <<>> =>
       /\ pc \in {"te_return", "done"}
       /\ saved[1].out_dir = <<hparams.exp_dir, hparams.exp, "reconstructions">>
       /\ DictKeys(saved[1].reconstructions) = FnamesOf(logs0)
  /\ pc \in {"done", "raised"} =>
       /\ Len(saved) = 1
       /\ result.kind = "return"
       /\ result.value = <<>>

\* what _evaluate is to return on the logs ls
Evaluated(ls) ==
  LET fs == FnamesOf(ls)
      m == <<<<"val_loss", Mean([j \in 1..Len(ls) |-> ls[j].val_loss])>>,
             <<"nmse", Mean([k \in 1..Len(fs) |->
                 nmse(VolumeOf(ls, fs[k], "target"), VolumeOf(ls, fs[k], "output"))])>>,
             <<"ssim", Mean([k \in 1..Len(fs) |->
                 ssim(VolumeOf(ls, fs[k], "target"), VolumeOf(ls, fs[k], "output"))])>>,
             <<"psnr", Mean([k \in 1..Len(fs) |->
                 psnr(VolumeOf(ls, fs[k], "target"), VolumeOf(ls, fs[k], "output"))])>>>>
  IN <<<<"log", m>>>> \o m

\* C4: _evaluate computes nmse, ssim and psnr once per distinct fname, on
\* the stacked volumes, and val_loss once per log; each returned metric is
\* the mean of its list; the returned dictionary has exactly the keys log,
\* val_loss, nmse, ssim, psnr and 'log' holds the same four values.
C4_EvaluateMetrics ==
  (pc = "done" /\ result.kind = "return") =>
    LET r == result.value
    IN /\ DictKeys(r) = <<"log", "val_loss", "nmse", "ssim", "psnr">>
       /\ r[1][2] = SubSeq(r, 2, 5)
       /\ r = Evaluated(logs)
       /\ Len(DictGet(r, "val_loss")[2]) = Len(logs)
       /\ \A k \in 3..5 : Len(r[k][2][2]) = Len(FnamesOf(logs))

\* an evaluation of several batches that hold several slices of one file
C4_Witness ==
  /\ pc = "done"
  /\ result.kind = "return"
  /\ Len(logs) = 3
  /\ Len(FnamesOf(logs)) = 1
  /\ logs[1].val_loss # logs[2].val_loss

\* C5: on the base class each of train_dataloader, val_dataloader and
\* test_dataloader ends with the NotImplementedError of its hook, and no
\* SliceData, DistributedSampler or DataLoader is constructed before it.
C5_BaseLoadersRaise ==
  (overrides = {} /\ method \in Partitions) =>
    /\ constructed = <<>>
    /\ pc \in {"dl_transform", "raised"}
    /\ pc = "raised" =>
         (result.kind = "raise" /\ result.value = "NotImplementedError")

C5_Witness ==
  /\ overrides = {}
  /\ method = "test"
  /\ pc = "raised"
  /\ result.kind = "raise"
  /\ constructed = <<>>

\* ceil(n / 16): the least k with 16 * k >= n
CeilDiv16(n) == CHOOSE k \in 0..n : 16 * k >= n /\ \A l \in 0..(k - 1) : 16 * l < n

\* C6: for n >= 1 logs _visualize picks entry 0 of the logs at indices
\* 0, step, 2*step, ... below n with step = ceil(n / 16); log 0 is picked,
\* between 1 and 16 logs are picked (n of them when n <= 16), and three
\* images are logged, in the order 'Target', 'Reconstruction', 'Error'.
C6_VisualizeSampling ==
  (method = "validation_end" /\ images # <<>>) =>
    LET n == Len(logs0)
        step == CeilDiv16(n)
    IN /\ n >= 1
       /\ \A j \in 1..Len(picked) : picked[j] = (j - 1) * step /\ picked[j] < n
       /\ Len(picked) * step >= n
       /\ picked[1] = 0
       /\ Len(picked) >= 1 /\ Len(picked) <= 16
       /\ n <= 16 => Len(picked) = n
       /\ Len(vis_outputs) = Len(picked) /\ Len(vis_targets) = Len(picked)
       /\ \A j \in 1..Len(picked) :
            /\ vis_outputs[j] = _normalize(logs0[picked[j] + 1].output[1])
            /\ vis_targets[j] = _normalize(logs0[picked[j] + 1].target[1])
       /\ [j \in 1..Len(images) |-> images[j][1]]
            = SubSeq(<<"Target", "Reconstruction", "Error">>, 1, Len(images))
       /\ images[1][2] = vis_targets
       /\ Len(images) >= 2 => images[2][2] = vis_outputs
       /\ pc \notin {"vis_recon", "vis_error"} => Len(images) = 3

\* a visualisation of more than 32 logs: step 3
C6_Witness ==
  /\ method = "validation_end"
  /\ Len(logs0) = 34
  /\ Len(images) = 3
  /\ picked = <<0, 3, 6, 9, 12, 15, 18, 21, 24, 27, 30, 33>>

\* C7: test_dataloader builds its dataset with sample_rate 1.0, the train
\* and val loaders with hparams.sample_rate; the loaders read from
\* data_path / '<challenge>_<partition>'; an explicit sample_rate passed to
\* _create_data_loader is used as given for every value, and
\* hparams.sample_rate only when none is passed.
C7_SampleRateAndPartition ==
  constructed # <<>> =>
    LET ds == constructed[1]
    IN /\ ds.root = <<hparams.data_path,
                      <<hparams.challenge, "_", args.data_partition>>>>
       /\ method \in Partitions => args.data_partition = method
       /\ method = "test" => ds.sample_rate = One
       /\ method \in {"train", "val"} => ds.sample_rate = hparams.sample_rate
       /\ args.passed_rate # <<>> => ds.sample_rate = args.passed_rate[1]
       /\ args.passed_rate = <<>> => ds.sample_rate = hparams.sample_rate

\* C8: validation_end runs _visualize first and _evaluate second, and
\* _visualize leaves the logs unchanged: every 'output' and 'target' array
\* holds the values it held at the call, so the returned metrics are those
\* of _evaluate on the logs as passed in.
C8_VisualizeLeavesLogsUnchanged ==
  method = "validation_end" =>
    /\ logs = logs0
    /\ pc \in {"ev_start", "ev_group", "ev_metric", "done"} => Len(images) = 3
    /\ (pc = "done" /\ result.kind = "return") => result.value = Evaluated(logs0)

====
